---- MODULE Spec2Model ----
(***************************************************************************)
(* Model of semafor/formats/malt_to_conll.py: the CoNLL field schema, the  *)
(* defaulting constructor default_conll_token, the segmenting generator    *)
(* read_conll, the transcoder malt_to_conll and the driver main.           *)
(*                                                                         *)
(* Text is modelled as a sequence of one-character strings, so that        *)
(* strip, split, join, int() and unicode() are computed character by       *)
(* character.  A Python value that is either text or an integer is a       *)
(* record made by StrV or IntV.                                            *)
(***************************************************************************)
EXTENDS Integers, Sequences, FiniteSets, TLC

\* ------------------------------------------------------------------------
\* Bounds of the model
\* ------------------------------------------------------------------------
MaxLines == 4
MaxTokens == 2
MaxOverrides == 2
MaxStdin == 3

\* ------------------------------------------------------------------------
\* Text primitives
\* ------------------------------------------------------------------------
TAB == "\t"
NL == "\n"
PLACEHOLDER == <<"_">>

\* the characters str.strip() removes
Whitespace == {" ", "\t", "\n", "\r"}

Digits == <<"0", "1", "2", "3", "4", "5", "6", "7", "8", "9">>

IsDigit(c) == \E d \in 1..10 : Digits[d] = c

DigitVal(c) == (CHOOSE d \in 1..10 : Digits[d] = c) - 1

StrV(s) == [isInt |-> FALSE, n |-> 0, s |-> s]

IntV(n) == [isInt |-> TRUE, n |-> n, s |-> <<>>]

RECURSIVE lstrip(_)
lstrip(s) ==
    IF s # <<>> /\ Head(s) \in Whitespace THEN lstrip(Tail(s)) ELSE s

RECURSIVE rstrip(_)
rstrip(s) ==
    IF s # <<>> /\ s[Len(s)] \in Whitespace
    THEN rstrip(SubSeq(s, 1, Len(s) - 1))
    ELSE s

\* line.strip()
strip(s) == rstrip(lstrip(s))

\* s.split(sep) for a one-character separator: always at least one field
RECURSIVE split(_, _)
split(s, sep) ==
    IF \A i \in 1..Len(s) : s[i] # sep
    THEN <<s>>
    ELSE LET k == CHOOSE i \in 1..Len(s) :
                      s[i] = sep /\ \A j \in 1..(i - 1) : s[j] # sep
         IN  <<SubSeq(s, 1, k - 1)>> \o split(SubSeq(s, k + 1, Len(s)), sep)

\* sep.join(strs)
RECURSIVE join(_, _)
join(sep, strs) ==
    IF strs = <<>> THEN <<>>
    ELSE IF Len(strs) = 1 THEN strs[1]
    ELSE strs[1] \o <<sep>> \o join(sep, Tail(strs))

RECURSIVE DigitsValue(_)
DigitsValue(s) ==
    IF s = <<>> THEN 0
    ELSE 10 * DigitsValue(SubSeq(s, 1, Len(s) - 1)) + DigitVal(s[Len(s)])

\* int(text): surrounding whitespace is ignored, one optional sign, then
\* one or more decimal digits; anything else raises ValueError
IntBody(s) ==
    LET t == strip(s)
    IN  IF t # <<>> /\ Head(t) \in {"+", "-"} THEN Tail(t) ELSE t

IntOk(s) ==
    LET b == IntBody(s)
    IN  b # <<>> /\ \A i \in 1..Len(b) : IsDigit(b[i])

IntOf(s) ==
    LET t == strip(s)
    IN  IF t # <<>> /\ Head(t) = "-"
        THEN 0 - DigitsValue(IntBody(s))
        ELSE DigitsValue(IntBody(s))

\* unicode(n) for n >= 0: the decimal numeral of n
RECURSIVE unicode(_)
unicode(n) ==
    IF n < 10 THEN <<Digits[n + 1]>>
    ELSE unicode(n \div 10) \o <<Digits[(n % 10) + 1]>>

\* ------------------------------------------------------------------------
\* The CoNLL schema and the record constructors
\* ------------------------------------------------------------------------
CONLL_FIELDS ==
    <<"id", "form", "lemma", "cpostag", "postag",
      "feats", "head", "deprel", "phead", "pdeprel">>

FieldNames == {CONLL_FIELDS[i] : i \in 1..Len(CONLL_FIELDS)}

\* CONLL_FIELDS.index(name), as a position counted from 1
index(name) == CHOOSE i \in 1..Len(CONLL_FIELDS) : CONLL_FIELDS[i] = name

Raised == [ok |-> FALSE, token |-> <<>>]

\* ConllToken(**d): TypeError unless the keys are exactly the field names
ConllTokenKw(d) ==
    IF DOMAIN d = FieldNames
    THEN [ok |-> TRUE,
          token |-> [i \in 1..Len(CONLL_FIELDS) |-> d[CONLL_FIELDS[i]]]]
    ELSE Raised

\* ConllToken(*parts): TypeError unless exactly one value per field
ConllTokenPos(parts) ==
    IF Len(parts) = Len(CONLL_FIELDS)
    THEN [ok |-> TRUE, token |-> parts]
    ELSE Raised

\* default_conll_token that drops the keys it does not know
default_conll_token_lenient(kwargs) ==
    LET defaults == [name \in FieldNames |-> PLACEHOLDER]
        updated == [k \in DOMAIN defaults |->
                        IF k \in DOMAIN kwargs THEN kwargs[k] ELSE defaults[k]]
    IN  ConllTokenKw(updated)

default_conll_token(kwargs) ==
    LET defaults == [name \in FieldNames |-> PLACEHOLDER]
        updated == [k \in (DOMAIN defaults) \cup (DOMAIN kwargs) |->
                        IF k \in DOMAIN kwargs THEN kwargs[k] ELSE defaults[k]]
    IN  ConllTokenKw(updated)

\* ------------------------------------------------------------------------
\* malt_to_conll
\* ------------------------------------------------------------------------
\* conll_line with the token counter starting at 0
conll_line_from_zero(i, token) ==
    LET conll_token == default_conll_token(
                           [id |-> unicode(i),
                            form |-> token.form,
                            cpostag |-> token.postag,
                            postag |-> token.postag,
                            head |-> token.head,
                            deprel |-> token.deprel])
    IN  join(TAB, conll_token.token)

\* one pass of the loop body: the text line of the token at 0-based index i
conll_line(i, token) ==
    LET conll_token == default_conll_token(
                           [id |-> unicode(i + 1),
                            form |-> token.form,
                            cpostag |-> token.postag,
                            postag |-> token.postag,
                            head |-> token.head,
                            deprel |-> token.deprel])
    IN  join(TAB, conll_token.token)

\* malt_to_conll without the trailing empty segment
malt_to_conll_unterminated(malt_tokens) ==
    LET output == [k \in 1..Len(malt_tokens) |->
                       conll_line(k - 1, malt_tokens[k])]
    IN  join(NL, output)

malt_to_conll(malt_tokens) ==
    LET output == [k \in 1..Len(malt_tokens) |->
                       conll_line(k - 1, malt_tokens[k])]
    IN  join(NL, output \o << <<>> >>)

\* ------------------------------------------------------------------------
\* State
\* ------------------------------------------------------------------------
VARIABLES
    pc,             \* position of the running function
    lines,          \* read_conll: the lines argument
    lookup_lemmas,  \* read_conll: the lookup_lemmas argument
    pos,            \* read_conll: number of lines taken from the iterator
    result,         \* read_conll: the in-progress sentence
    yielded,        \* read_conll: the sentences yielded so far, in order
    lookups,        \* the calls made to get_lemma so far, in order
    kwargs,         \* default_conll_token: the keyword arguments
    token,          \* default_conll_token: what the call produced
    malt_tokens,    \* malt_to_conll: the argument
    conll,          \* the text block malt_to_conll returned
    stdin,          \* main: the lines of standard input
    lineNo,         \* main: number of lines taken from standard input
    stdout          \* main: the text written to standard output

vars == <<pc, lines, lookup_lemmas, pos, result, yielded, lookups,
          kwargs, token, malt_tokens, conll, stdin, lineNo, stdout>>

\* ------------------------------------------------------------------------
\* read_conll
\* ------------------------------------------------------------------------
\* the external lemma dictionary: some function of (form, postag), here the
\* one that keeps both arguments apart
get_lemma(form, postag) == form \o <<"/">> \o postag

\* the integer conversions of id, head and phead: TRUE when none raises
ints_ok(fields) ==
    /\ IntOk(fields[index("id")])
    /\ Len(fields) >= index("head")
    /\ fields[index("head")] # PLACEHOLDER => IntOk(fields[index("head")])
    /\ Len(fields) >= index("phead")
    /\ fields[index("phead")] # PLACEHOLDER => IntOk(fields[index("phead")])

\* consults with the lookup_lemmas flag ignored
consults_always(fields, lookup) ==
    fields[index("lemma")] = PLACEHOLDER

\* TRUE when get_lemma is called for the line
consults(fields, lookup) ==
    lookup /\ fields[index("lemma")] = PLACEHOLDER

\* converted with head left as text
converted_head_text(fields, lookup) ==
    [i \in 1..Len(fields) |->
        IF i = index("id") THEN IntV(IntOf(fields[i]))
        ELSE IF i = index("phead") /\ fields[i] # PLACEHOLDER
             THEN IntV(IntOf(fields[i]))
        ELSE IF i = index("lemma") /\ consults(fields, lookup)
             THEN StrV(get_lemma(fields[index("form")],
                                 fields[index("postag")]))
        ELSE StrV(fields[i])]

\* parts after the conversions and the optional lemma lookup
converted(fields, lookup) ==
    [i \in 1..Len(fields) |->
        IF i = index("id") THEN IntV(IntOf(fields[i]))
        ELSE IF i \in {index("head"), index("phead")}
                  /\ fields[i] # PLACEHOLDER
             THEN IntV(IntOf(fields[i]))
        ELSE IF i = index("lemma") /\ consults(fields, lookup)
             THEN StrV(get_lemma(fields[index("form")],
                                 fields[index("postag")]))
        ELSE StrV(fields[i])]

\* the else branch of the loop body for one stripped, non-empty line
parse_record(line, lookup) ==
    LET fields == split(line, TAB)
    IN  IF ~ints_ok(fields)
        THEN [ok |-> FALSE, token |-> <<>>, looked |-> <<>>]
        ELSE LET made == ConllTokenPos(converted(fields, lookup))
             IN  [ok |-> made.ok, token |-> made.token,
                  looked |-> IF consults(fields, lookup)
                             THEN << <<fields[index("form")],
                                      fields[index("postag")]>> >>
                             ELSE <<>>]

\* ReadBlank without the reset of the accumulator
ReadBlank_keep ==
    /\ pc = "loop"
    /\ pos < Len(lines)
    /\ strip(lines[pos + 1]) = <<>>
    /\ yielded' = Append(yielded, result)
    /\ pos' = pos + 1
    /\ UNCHANGED <<pc, lines, lookup_lemmas, result, lookups>>
    /\ UNCHANGED <<kwargs, token, malt_tokens, conll, stdin, lineNo, stdout>>

\* the for loop takes a line that is empty after strip()
ReadBlank ==
    /\ pc = "loop"
    /\ pos < Len(lines)
    /\ strip(lines[pos + 1]) = <<>>
    /\ yielded' = Append(yielded, result)
    /\ result' = <<>>
    /\ pos' = pos + 1
    /\ UNCHANGED <<pc, lines, lookup_lemmas, lookups>>
    /\ UNCHANGED <<kwargs, token, malt_tokens, conll, stdin, lineNo, stdout>>

\* the for loop takes a record line and appends its token
ReadRecord ==
    /\ pc = "loop"
    /\ pos < Len(lines)
    /\ strip(lines[pos + 1]) # <<>>
    /\ LET r == parse_record(strip(lines[pos + 1]), lookup_lemmas)
       IN  /\ r.ok
           /\ result' = Append(result, r.token)
           /\ lookups' = lookups \o r.looked
    /\ pos' = pos + 1
    /\ UNCHANGED <<pc, lines, lookup_lemmas, yielded>>
    /\ UNCHANGED <<kwargs, token, malt_tokens, conll, stdin, lineNo, stdout>>

\* ReadFail that flushes the in-progress sentence before raising
ReadFail_flush ==
    /\ pc = "loop"
    /\ pos < Len(lines)
    /\ strip(lines[pos + 1]) # <<>>
    /\ LET r == parse_record(strip(lines[pos + 1]), lookup_lemmas)
       IN  /\ ~r.ok
           /\ lookups' = lookups \o r.looked
    /\ pos' = pos + 1
    /\ pc' = "failed"
    /\ yielded' = IF result # <<>> THEN Append(yielded, result) ELSE yielded
    /\ UNCHANGED <<lines, lookup_lemmas, result>>
    /\ UNCHANGED <<kwargs, token, malt_tokens, conll, stdin, lineNo, stdout>>

\* the for loop takes a line on which the else branch raises
ReadFail ==
    /\ pc = "loop"
    /\ pos < Len(lines)
    /\ strip(lines[pos + 1]) # <<>>
    /\ LET r == parse_record(strip(lines[pos + 1]), lookup_lemmas)
       IN  /\ ~r.ok
           /\ lookups' = lookups \o r.looked
    /\ pos' = pos + 1
    /\ pc' = "failed"
    /\ UNCHANGED <<lines, lookup_lemmas, result, yielded>>
    /\ UNCHANGED <<kwargs, token, malt_tokens, conll, stdin, lineNo, stdout>>

\* ReadEnd without the test of the accumulator
ReadEnd_always ==
    /\ pc = "loop"
    /\ pos = Len(lines)
    /\ yielded' = Append(yielded, result)
    /\ pc' = "done"
    /\ UNCHANGED <<lines, lookup_lemmas, pos, result, lookups>>
    /\ UNCHANGED <<kwargs, token, malt_tokens, conll, stdin, lineNo, stdout>>

\* the lines are exhausted: the last sentence is yielded if it has records
ReadEnd ==
    /\ pc = "loop"
    /\ pos = Len(lines)
    /\ yielded' = IF result # <<>> THEN Append(yielded, result) ELSE yielded
    /\ pc' = "done"
    /\ UNCHANGED <<lines, lookup_lemmas, pos, result, lookups>>
    /\ UNCHANGED <<kwargs, token, malt_tokens, conll, stdin, lineNo, stdout>>

\* ------------------------------------------------------------------------
\* Inputs of read_conll
\* ------------------------------------------------------------------------
\* a line of whitespace only, which strip() empties
BlankLines == { <<" ", TAB, NL>> }

RecordLines ==
    { \* lemma absent, coarse and fine tag differ, and the ten fields are
      \* wrapped in tabs and a newline that strip() removes
      <<TAB>> \o join(TAB, << <<"1">>, <<"a">>, <<"_">>, <<"N">>, <<"V">>,
                   <<"_">>, <<"2">>, <<"r">>, <<"_">>, <<"_">> >>)
              \o <<TAB, NL>>,
      \* lemma present, head absent, phead numeric, leading blank in id
      join(TAB, << <<" ", "2">>, <<"b">>, <<"x">>, <<"V">>, <<"V">>,
                   <<"_">>, <<"_">>, <<"r">>, <<"1">>, <<"_">> >>) }

BadLines ==
    { \* eight fields
      join(TAB, << <<"1">>, <<"a">>, <<"_">>, <<"N">>, <<"N">>, <<"_">>,
                   <<"0">>, <<"r">> >>),
      \* eleven fields
      join(TAB, << <<"1">>, <<"a">>, <<"_">>, <<"N">>, <<"N">>, <<"_">>,
                   <<"0">>, <<"r">>, <<"_">>, <<"_">>, <<"_">> >>),
      \* id is not a numeral
      join(TAB, << <<"x">>, <<"a">>, <<"_">>, <<"N">>, <<"N">>, <<"_">>,
                   <<"0">>, <<"r">>, <<"_">>, <<"_">> >>),
      \* head is neither a numeral nor the placeholder
      join(TAB, << <<"1">>, <<"a">>, <<"_">>, <<"N">>, <<"N">>, <<"_">>,
                   <<"h">>, <<"r">>, <<"_">>, <<"_">> >>) \o <<NL>>,
      \* phead is neither a numeral nor the placeholder
      join(TAB, << <<"1">>, <<"a">>, <<"y">>, <<"N">>, <<"N">>, <<"_">>,
                   <<"0">>, <<"r">>, <<"1", "-">>, <<"_">> >>) }

InputLines == BlankLines \cup RecordLines \cup BadLines

SeqsUpTo(S, n) == UNION {[1..k -> S] : k \in 0..n}

Idle ==
    /\ kwargs = <<>>
    /\ token = Raised
    /\ malt_tokens = <<>>
    /\ conll = <<>>
    /\ stdin = <<>>
    /\ lineNo = 0
    /\ stdout = <<>>

ReaderStart ==
    /\ pos = 0
    /\ result = <<>>
    /\ yielded = <<>>
    /\ lookups = <<>>

InitReader ==
    /\ pc = "loop"
    /\ lines \in SeqsUpTo(InputLines, MaxLines)
    /\ lookup_lemmas \in BOOLEAN
    /\ ReaderStart
    /\ Idle

NextReader == ReadBlank \/ ReadRecord \/ ReadFail \/ ReadEnd

SpecReader == InitReader /\ [][NextReader]_vars

\* ------------------------------------------------------------------------
\* default_conll_token called on its own
\* ------------------------------------------------------------------------
OverrideKeys == FieldNames \cup {"ID", "xpostag"}

OverrideValues == { PLACEHOLDER, <<"v">> }

Overrides ==
    UNION {[K -> OverrideValues] :
              K \in {S \in SUBSET OverrideKeys : Cardinality(S) <= MaxOverrides}}

InitDefault ==
    /\ pc = "default_call"
    /\ kwargs \in Overrides
    /\ token = Raised
    /\ lines = <<>>
    /\ lookup_lemmas = FALSE
    /\ ReaderStart
    /\ malt_tokens = <<>>
    /\ conll = <<>>
    /\ stdin = <<>>
    /\ lineNo = 0
    /\ stdout = <<>>

CallDefault ==
    /\ pc = "default_call"
    /\ token' = default_conll_token(kwargs)
    /\ pc' = "default_returned"
    /\ UNCHANGED <<lines, lookup_lemmas, pos, result, yielded, lookups>>
    /\ UNCHANGED <<kwargs, malt_tokens, conll, stdin, lineNo, stdout>>

NextDefault == CallDefault

SpecDefault == InitDefault /\ [][NextDefault]_vars

\* ------------------------------------------------------------------------
\* malt_to_conll called on its own, its block then re-read by read_conll
\* ------------------------------------------------------------------------
MaltToken(form, postag, head, deprel) ==
    [form |-> form, postag |-> postag, head |-> head, deprel |-> deprel]

MaltTokens ==
    { MaltToken(<<"D">>, <<"N">>, <<"2">>, <<"n", "s">>),
      MaltToken(<<"b">>, <<"V">>, <<"0">>, <<"R">>),
      \* head beyond the sentence
      MaltToken(<<"c">>, <<"N">>, <<"9">>, <<"x">>),
      \* empty fields, negative head
      MaltToken(<<>>, <<"N">>, <<"-", "1">>, <<>>),
      \* a tab inside the form
      MaltToken(<<"a", TAB, "b">>, <<"N">>, <<"1">>, <<"x">>),
      \* head is not a numeral
      MaltToken(<<"e">>, <<"N">>, <<"h">>, <<"r">>) }

InitMalt ==
    /\ pc = "malt_call"
    /\ malt_tokens \in SeqsUpTo(MaltTokens, MaxTokens)
    /\ conll = <<>>
    /\ lines = <<>>
    /\ lookup_lemmas \in BOOLEAN
    /\ ReaderStart
    /\ kwargs = <<>>
    /\ token = Raised
    /\ stdin = <<>>
    /\ lineNo = 0
    /\ stdout = <<>>

CallMalt ==
    /\ pc = "malt_call"
    /\ conll' = malt_to_conll(malt_tokens)
    /\ pc' = "malt_returned"
    /\ UNCHANGED <<lines, lookup_lemmas, pos, result, yielded, lookups>>
    /\ UNCHANGED <<kwargs, token, malt_tokens, stdin, lineNo, stdout>>

\* text.splitlines() for text whose only line break is the newline
splitlines(text) ==
    IF text = <<>> THEN <<>>
    ELSE IF text[Len(text)] = NL
         THEN split(SubSeq(text, 1, Len(text) - 1), NL)
         ELSE split(text, NL)

\* the block is cut into lines, by split or by splitlines, and the lines
\* are handed to read_conll
SplitBlock ==
    /\ pc = "malt_returned"
    /\ \E how \in {"split", "splitlines"} :
          lines' = IF how = "split" THEN split(conll, NL) ELSE splitlines(conll)
    /\ pc' = "loop"
    /\ UNCHANGED <<lookup_lemmas, pos, result, yielded, lookups>>
    /\ UNCHANGED <<kwargs, token, malt_tokens, conll, stdin, lineNo, stdout>>

NextMalt ==
    CallMalt \/ SplitBlock \/ ReadBlank \/ ReadRecord \/ ReadFail \/ ReadEnd

SpecMalt == InitMalt /\ [][NextMalt]_vars

\* ------------------------------------------------------------------------
\* main
\* ------------------------------------------------------------------------
\* a line of standard input: bytes that decode or not, text that read_malt
\* parses into tokens or rejects
StdinLine(kind, tokens) == [kind |-> kind, tokens |-> tokens]

StdinLines ==
    { StdinLine("ok", <<>>),
      StdinLine("ok", << MaltToken(<<"D">>, <<"N">>, <<"2">>, <<"n">>),
                         MaltToken(<<"b">>, <<"V">>, <<"0">>, <<"R">>) >>),
      StdinLine("ok", << MaltToken(<<"c">>, <<"N">>, <<"9">>, <<"x">>) >>),
      StdinLine("undecodable", <<>>),
      StdinLine("unparsable", <<>>) }

\* line.decode('utf8'): UnicodeDecodeError on bytes that are not UTF-8
decode(line) == [ok |-> line.kind # "undecodable", text |-> line]

\* the external reader of one line of MaltParser output
read_malt(text) == [ok |-> text.kind = "ok", tokens |-> text.tokens]

InitMain ==
    /\ pc = "main_loop"
    /\ stdin \in SeqsUpTo(StdinLines, MaxStdin)
    /\ lineNo = 0
    /\ stdout = <<>>
    /\ conll = <<>>
    /\ malt_tokens = <<>>
    /\ kwargs = <<>>
    /\ token = Raised
    /\ lines = <<>>
    /\ lookup_lemmas = FALSE
    /\ ReaderStart

\* the for loop takes a line; decoding, parsing and transcoding succeed
MainConvert ==
    /\ pc = "main_loop"
    /\ lineNo < Len(stdin)
    /\ LET d == decode(stdin[lineNo + 1])
       IN  /\ d.ok
           /\ read_malt(d.text).ok
           /\ conll' = malt_to_conll(read_malt(d.text).tokens)
    /\ lineNo' = lineNo + 1
    /\ pc' = "main_print"
    /\ UNCHANGED <<lines, lookup_lemmas, pos, result, yielded, lookups>>
    /\ UNCHANGED <<kwargs, token, malt_tokens, stdin, stdout>>

\* MainRaise that drops the offending line and goes on
MainRaise_skip ==
    /\ pc = "main_loop"
    /\ lineNo < Len(stdin)
    /\ LET d == decode(stdin[lineNo + 1])
       IN  ~d.ok \/ ~read_malt(d.text).ok
    /\ lineNo' = lineNo + 1
    /\ UNCHANGED <<lines, lookup_lemmas, pos, result, yielded, lookups>>
    /\ UNCHANGED <<pc, kwargs, token, malt_tokens, conll, stdin, stdout>>

\* the for loop takes a line on which decoding or parsing raises; nothing
\* catches the exception
MainRaise ==
    /\ pc = "main_loop"
    /\ lineNo < Len(stdin)
    /\ LET d == decode(stdin[lineNo + 1])
       IN  ~d.ok \/ ~read_malt(d.text).ok
    /\ lineNo' = lineNo + 1
    /\ pc' = "main_failed"
    /\ UNCHANGED <<lines, lookup_lemmas, pos, result, yielded, lookups>>
    /\ UNCHANGED <<kwargs, token, malt_tokens, conll, stdin, stdout>>

\* the print statement: the block, then the newline print adds
MainPrint ==
    /\ pc = "main_print"
    /\ stdout' = stdout \o conll \o <<NL>>
    /\ pc' = "main_loop"
    /\ UNCHANGED <<lines, lookup_lemmas, pos, result, yielded, lookups>>
    /\ UNCHANGED <<kwargs, token, malt_tokens, conll, stdin, lineNo>>

\* standard input is exhausted
MainExit ==
    /\ pc = "main_loop"
    /\ lineNo = Len(stdin)
    /\ pc' = "main_exit"
    /\ UNCHANGED <<lines, lookup_lemmas, pos, result, yielded, lookups>>
    /\ UNCHANGED <<kwargs, token, malt_tokens, conll, stdin, lineNo, stdout>>

NextMain == MainConvert \/ MainRaise \/ MainPrint \/ MainExit

SpecMain == InitMain /\ [][NextMain]_vars

\* ------------------------------------------------------------------------
\* Vocabulary of the properties of read_conll
\* ------------------------------------------------------------------------
\* a line with nothing but surrounding whitespace
AllWhite(l) == \A i \in 1..Len(l) : l[i] \in Whitespace

\* the positions, in order, of the record lines among the first k lines
RECURSIVE RecordLinesUpTo(_)
RecordLinesUpTo(k) ==
    IF k = 0 THEN <<>>
    ELSE IF AllWhite(lines[k]) THEN RecordLinesUpTo(k - 1)
    ELSE Append(RecordLinesUpTo(k - 1), k)

\* the positions, in order, of the blank lines among the first k lines
RECURSIVE BlankLinesUpTo(_)
BlankLinesUpTo(k) ==
    IF k = 0 THEN <<>>
    ELSE IF AllWhite(lines[k]) THEN Append(BlankLinesUpTo(k - 1), k)
    ELSE BlankLinesUpTo(k - 1)

RECURSIVE Flatten(_)
Flatten(ss) == IF ss = <<>> THEN <<>> ELSE Head(ss) \o Flatten(Tail(ss))

\* the sentence that holds the j-th record of Flatten(ss)
RECURSIVE SentenceAt(_, _)
SentenceAt(ss, j) ==
    IF j <= Len(Head(ss)) THEN 1
    ELSE 1 + SentenceAt(Tail(ss), j - Len(Head(ss)))

\* the record a record line stands for
RecordOf(l) == parse_record(strip(l), lookup_lemmas).token

\* every record produced so far, in the order the consumer meets them
AllRecords ==
    IF pc = "done" THEN Flatten(yielded) ELSE Flatten(yielded) \o result

\* C1: while the read has not failed, the sentences yielded so far followed
\* by the in-progress sentence hold exactly the records of the record lines
\* read so far, in input order; and when the read completes, the yielded
\* sentences concatenate to the records of all record lines, two records
\* sharing a sentence exactly when no blank line lies between their lines.
C1_Segmentation ==
    pc \in {"loop", "done"} =>
        LET nb == RecordLinesUpTo(pos)
            recs == AllRecords
        IN  /\ Len(recs) = Len(nb)
            /\ \A j \in 1..Len(nb) : recs[j] = RecordOf(lines[nb[j]])
            /\ pc = "done" =>
                 \A j1, j2 \in 1..Len(nb) :
                    j1 < j2 =>
                      ( SentenceAt(yielded, j1) = SentenceAt(yielded, j2)
                        <=> ~ \E b \in nb[j1]..nb[j2] : AllWhite(lines[b]) )

\* a completed read that produced two sentences, one of them with two
\* records, from lines that do not end with a blank line
C1_Witness ==
    /\ pc = "done"
    /\ Len(yielded) = 2
    /\ Len(yielded[1]) = 2
    /\ Len(yielded[2]) = 1
    /\ ~AllWhite(lines[Len(lines)])

\* number of record lines strictly between positions a and b
RecordsBetween(a, b) ==
    Cardinality({i \in (a + 1)..(b - 1) : ~AllWhite(lines[i])})

\* C2: after k lines have been read there is exactly one yielded sentence
\* per blank line among them, the sentence of a blank line holding the
\* record lines since the previous blank line (none gives an empty
\* sentence); the end of input adds one sentence exactly when the last line
\* is a record line, and adds nothing after a trailing blank line.
C2_YieldPerBlankLine ==
    pc \in {"loop", "done"} =>
        LET bl == BlankLinesUpTo(pos)
            open == pos > 0 /\ ~AllWhite(lines[pos])
        IN  /\ pc = "loop" => Len(yielded) = Len(bl)
            /\ pc = "done" =>
                 Len(yielded) = Len(bl) + (IF open THEN 1 ELSE 0)
            /\ \A k \in 1..Len(bl) :
                 Len(yielded[k]) =
                    RecordsBetween(IF k = 1 THEN 0 ELSE bl[k - 1], bl[k])
            /\ (pc = "done" /\ open) =>
                 Len(yielded[Len(yielded)]) =
                    RecordsBetween(IF bl = <<>> THEN 0 ELSE bl[Len(bl)],
                                   pos + 1)

\* a completed read of lines that start with a blank line and end with a
\* record line: an empty sentence, and a final sentence without a blank line
C2_Witness ==
    /\ pc = "done"
    /\ Len(lines) = MaxLines
    /\ AllWhite(lines[1])
    /\ ~AllWhite(lines[Len(lines)])
    /\ yielded[1] = <<>>
    /\ Len(yielded) = 2

\* C3: every sentence read_conll yields has at least one record.
C3_SentencesNonEmpty ==
    \A k \in 1..Len(yielded) : yielded[k] # <<>>

\* the tab-separated fields of a line once its surrounding whitespace is gone
FieldsOf(l) == split(strip(l), TAB)

\* the line asks for a dictionary lookup: lookup_lemmas and no lemma given
WantsLemma(l) ==
    /\ lookup_lemmas
    /\ LET f == FieldsOf(l) IN Len(f) >= 3 /\ f[3] = PLACEHOLDER

\* the (form, postag) pairs of the lines that ask for a lookup, in order
RECURSIVE LookupsFor(_)
LookupsFor(nb) ==
    IF nb = <<>> THEN <<>>
    ELSE LET rest == LookupsFor(SubSeq(nb, 1, Len(nb) - 1))
             l == lines[nb[Len(nb)]]
             f == FieldsOf(l)
         IN  IF WantsLemma(l) THEN Append(rest, <<f[2], f[5]>>) ELSE rest

\* number of lines whose record was produced
Processed == IF pc = "failed" THEN pos - 1 ELSE pos

\* C5: the lemma of every record produced is the dictionary's value for
\* (form, fine-grained postag) when lookup_lemmas is set and the line's
\* lemma is the placeholder, and the line's own lemma otherwise; every
\* other field is what it is without lookup; and the dictionary was
\* consulted for exactly the lines that ask for it (for a line on which
\* the read fails, at most once and only if that line asks for it).
C5_LemmaLookup ==
    LET nb == RecordLinesUpTo(Processed)
        recs == AllRecords
    IN  /\ Len(recs) = Len(nb)
        /\ \A j \in 1..Len(nb) :
             LET l == lines[nb[j]]
                 f == FieldsOf(l)
                 plain == parse_record(strip(l), FALSE).token
             IN  /\ recs[j][3] =
                       IF lookup_lemmas /\ f[3] = PLACEHOLDER
                       THEN StrV(get_lemma(f[2], f[5]))
                       ELSE StrV(f[3])
                 /\ \A i \in (1..10) \ {3} : recs[j][i] = plain[i]
        /\ \/ lookups = LookupsFor(nb)
           \/ /\ pc = "failed"
              /\ WantsLemma(lines[pos])
              /\ lookups = LookupsFor(Append(nb, pos))

\* lookup_lemmas is set and the read produced both a record whose lemma
\* came from the dictionary and a record that kept its own lemma
C5_Witness ==
    /\ pc = "done"
    /\ lookup_lemmas
    /\ \E j \in 1..Len(AllRecords) : AllRecords[j][3] = StrV(<<"x">>)
    /\ \E j \in 1..Len(AllRecords) :
          AllRecords[j][3] = StrV(get_lemma(<<"a">>, <<"V">>))

\* a record line the reader cannot turn into a record: after strip() it
\* does not split on tab into ten fields, or id is not an integer, or head
\* or phead is neither the placeholder nor an integer
Malformed(l) ==
    LET f == FieldsOf(l)
    IN  \/ Len(f) # 10
        \/ ~IntOk(f[1])
        \/ Len(f) >= 7 /\ f[7] # PLACEHOLDER /\ ~IntOk(f[7])
        \/ Len(f) >= 9 /\ f[9] # PLACEHOLDER /\ ~IntOk(f[9])

\* C9: when the next line is a malformed record line, the step that reads
\* it ends the read in failure with the yielded sentences and the
\* in-progress sentence as they were (no record for the line, no yield of
\* the in-progress sentence); and a failed read takes no further step, so
\* nothing is yielded for any later line.
C9_FailAtMalformedLine ==
    [][ /\ pc # "failed"
        /\ ( /\ pc = "loop"
             /\ pos < Len(lines)
             /\ ~AllWhite(lines[pos + 1])
             /\ Malformed(lines[pos + 1]) )
           => ( /\ pc' = "failed"
                /\ pos' = pos + 1
                /\ yielded' = yielded
                /\ result' = result ) ]_vars

\* a read that failed with a sentence already yielded, a sentence in
\* progress and a line still unread
C9_Witness ==
    /\ pc = "failed"
    /\ yielded # <<>>
    /\ result # <<>>
    /\ pos < Len(lines)

\* ------------------------------------------------------------------------
\* Properties of default_conll_token and malt_to_conll
\* ------------------------------------------------------------------------
\* C4: a call whose keys are all Schema field names returns a record of
\* exactly ten values in Schema order, each the override given for its
\* field or else the placeholder; a call with any other key raises and
\* returns no record.
C4_DefaultRecord ==
    pc = "default_returned" =>
        IF \A k \in DOMAIN kwargs : \E i \in 1..10 : CONLL_FIELDS[i] = k
        THEN /\ token.ok
             /\ Len(CONLL_FIELDS) = 10
             /\ DOMAIN token.token = 1..10
             /\ \A i \in 1..10 :
                  token.token[i] =
                     IF CONLL_FIELDS[i] \in DOMAIN kwargs
                     THEN kwargs[CONLL_FIELDS[i]]
                     ELSE <<"_">>
        ELSE /\ ~token.ok
             /\ token.token = <<>>

\* a call that overrode head and pdeprel with values of its own
C4_Witness ==
    /\ pc = "default_returned"
    /\ token.ok
    /\ DOMAIN kwargs = {"head", "pdeprel"}
    /\ token.token[7] = <<"v">>
    /\ token.token[10] = <<"v">>
    /\ token.token[1] = <<"_">>

\* the token line the k-th token stands for, written out field by field
LineFor(k, t) ==
    <<Digits[k + 1], TAB>> \o t.form \o <<TAB, "_", TAB>> \o t.postag
        \o <<TAB>> \o t.postag \o <<TAB, "_", TAB>> \o t.head \o <<TAB>>
        \o t.deprel \o <<TAB, "_", TAB, "_">>

RECURSIVE BlockFor(_, _)
BlockFor(ts, k) ==
    IF k = 0 THEN <<>>
    ELSE BlockFor(ts, k - 1) \o LineFor(k, ts[k]) \o <<NL>>

\* no field of the token holds a tab or a line break
SeparatorFree(t) ==
    \A f \in {t.form, t.postag, t.head, t.deprel} :
        \A i \in 1..Len(f) : f[i] \notin {TAB, NL, "\r"}

\* malt_to_conll has returned
Transcoded == pc \notin {"malt_call"}

\* C6: the block is the token lines of the source tokens in order, each
\* followed by a newline, the k-th being k, form, _, postag, postag, _,
\* head, deprel, _, _ joined by tabs with head copied as supplied; when no
\* source field holds a separator, cutting the block at newlines and the
\* k-th line at tabs gives back exactly those ten fields.
C6_FieldMapping ==
    Transcoded =>
        /\ conll = BlockFor(malt_tokens, Len(malt_tokens))
        /\ (\A k \in 1..Len(malt_tokens) : SeparatorFree(malt_tokens[k])) =>
             LET ls == split(conll, NL)
             IN  /\ Len(ls) = Len(malt_tokens) + 1
                 /\ ls[Len(ls)] = <<>>
                 /\ \A k \in 1..Len(malt_tokens) :
                      split(ls[k], TAB) =
                         << <<Digits[k + 1]>>, malt_tokens[k].form, <<"_">>,
                            malt_tokens[k].postag, malt_tokens[k].postag,
                            <<"_">>, malt_tokens[k].head,
                            malt_tokens[k].deprel, <<"_">>, <<"_">> >>

\* a block for two different tokens, the second with its head beyond the
\* sentence
C6_Witness ==
    /\ pc = "malt_returned"
    /\ Len(malt_tokens) = 2
    /\ malt_tokens[1] # malt_tokens[2]
    /\ malt_tokens[2].head = <<"9">>
    /\ Len(split(conll, NL)) = 3

\* C7 as stated: every block, the block of the empty sequence included,
\* ends with a newline.
C7_EveryBlockEndsWithNewline ==
    Transcoded => (conll # <<>> /\ conll[Len(conll)] = NL)

\* C7 amended: the block of a non-empty token sequence ends with a newline,
\* every token line being newline-terminated; the block of the empty
\* sequence is the empty text.
C7_BlockEndsWithNewline ==
    Transcoded =>
        IF malt_tokens = <<>>
        THEN conll = <<>>
        ELSE /\ conll # <<>>
             /\ conll[Len(conll)] = NL
             /\ Len(split(conll, NL)) >= Len(malt_tokens) + 1

\* a block of one token has been returned
C7_Witness ==
    /\ pc = "malt_returned"
    /\ Len(malt_tokens) = 1
    /\ conll[Len(conll)] = NL

\* the head is a numeral and no field holds a tab or other whitespace
RoundTripInput(t) ==
    /\ IntOk(t.head)
    /\ \A f \in {t.form, t.postag, t.head, t.deprel} :
          \A i \in 1..Len(f) : f[i] \notin Whitespace

\* C8: for a non-empty token sequence with numeral heads and fields free
\* of whitespace, re-read without lemma lookup, the read does not fail and
\* ends with exactly one sentence of one record per token in order, the
\* k-th with id the integer k, head the integer the source head denotes,
\* form, cpostag, postag and deprel the source texts, and lemma, feats,
\* phead and pdeprel the placeholder text.
C8_RoundTrip ==
    ( /\ malt_tokens # <<>>
      /\ \A k \in 1..Len(malt_tokens) : RoundTripInput(malt_tokens[k])
      /\ ~lookup_lemmas ) =>
        /\ pc # "failed"
        /\ pc = "done" =>
             /\ Len(yielded) = 1
             /\ Len(yielded[1]) = Len(malt_tokens)
             /\ \A k \in 1..Len(malt_tokens) :
                  yielded[1][k] =
                     << IntV(k), StrV(malt_tokens[k].form), StrV(<<"_">>),
                        StrV(malt_tokens[k].postag),
                        StrV(malt_tokens[k].postag), StrV(<<"_">>),
                        IntV(IntOf(malt_tokens[k].head)),
                        StrV(malt_tokens[k].deprel), StrV(<<"_">>),
                        StrV(<<"_">>) >>

\* the re-read of a two-token block with numeral heads has completed
C8_Witness ==
    /\ pc = "done"
    /\ ~lookup_lemmas
    /\ Len(malt_tokens) = 2
    /\ \A k \in 1..Len(malt_tokens) : RoundTripInput(malt_tokens[k])
    /\ Len(yielded) = 1
    /\ yielded[1][2][7].isInt

\* ------------------------------------------------------------------------
\* Properties of main
\* ------------------------------------------------------------------------
\* what main has written once the first k lines are processed
RECURSIVE Written(_)
Written(k) ==
    IF k = 0 THEN <<>>
    ELSE Written(k - 1) \o malt_to_conll(stdin[k].tokens) \o <<NL>>

\* C10: whenever main is about to take line k+1 the output is exactly the
\* blocks of lines 1..k in order, each followed by the newline of print;
\* while the block of line k is still to be printed the output is the
\* blocks of lines 1..k-1; once a line fails to decode or parse, main is
\* stopped with the output exactly the blocks of the lines before it (every
\* line taken by a run that has not failed was processed successfully, so
\* no line is taken after a failure).
C10_LineAtATime ==
    /\ pc = "main_loop" => stdout = Written(lineNo)
    /\ pc = "main_print" =>
          /\ stdout = Written(lineNo - 1)
          /\ conll = malt_to_conll(stdin[lineNo].tokens)
    /\ pc = "main_failed" =>
          /\ stdout = Written(lineNo - 1)
          /\ stdin[lineNo].kind # "ok"
    /\ pc = "main_exit" => stdout = Written(Len(stdin))
    /\ \A k \in 1..(IF pc = "main_failed" THEN lineNo - 1 ELSE lineNo) :
          stdin[k].kind = "ok"

\* main failed on its third line after writing two blocks
C10_Witness ==
    /\ pc = "main_failed"
    /\ lineNo = 3
    /\ stdout = Written(2)
    /\ stdin[1] # stdin[2]

====
